---- MODULE Spec2Model ----
(***************************************************************************)
(* Model of nfl-data-viz:                                                  *)
(*   src/inference.py                    predict                           *)
(*   src/scripts/validate_submission.py  validate                          *)
(* The two programs share no state.  SpecPredict runs one call of predict  *)
(* on a query table and an observation table drawn in its initial state;   *)
(* SpecValidate runs one call of validate on a submission drawn in its     *)
(* initial state, the gateway's batches being drawn as they are pulled.    *)
(***************************************************************************)
EXTENDS Integers, Sequences, FiniteSets

\* ------------------------------------------------------------------ bounds
\* Rows of an observation table that has the three key columns.
MaxObs == 2
\* Rows of an observation table that lacks a key column.
MaxRowsNoKey == 1
\* Rows of a query table.
MaxQueries == 2
\* Rows of a submission.
MaxSub == 3
\* Batches the gateway yields in one run.
MaxBatches == 3
\* Row ids one batch requests.
MaxRowIds == 2

\* ------------------------------------------------------------- value sets
\* A missing value: the NaN that to_pandas makes of a polars null.  It is
\* no coordinate of any drawn row.
NaN == -1
\* The value of a table variable that holds no table yet.
NoFrame == [cols |-> <<>>, rows |-> <<>>]

\* (game_id, play_id, nfl_id) of the players in the drawn observations, and of
\* the players queried: one more, who shares two ids with each of the others
\* and is in no observation.
EntityKeys == {<<1, 1, 2>>, <<1, 2, 1>>}
QueryKeys == EntityKeys \cup {<<1, 1, 1>>}
Frames == {1, 2}
\* The coordinates row i of a drawn table holds when they are not missing:
\* distinct from row to row, from x to y, and from the fallback.
XOf(i) == 10 * i + 1
YOf(i) == 10 * i + 2

KeyColSet == {"game_id", "play_id", "nfl_id"}
ObsCols == KeyColSet \cup {"frame_id", "x", "y"}

VARIABLES
    \* predict
    test,          \* the query table: [cols, rows]
    test_input,    \* the observation table: [cols, rows]
    ppc,           \* predict's position
    last_obs,      \* rows of last_obs (a sequence of records)
    lookup,        \* the dict: key tuple -> <<x, y>>
    qi,            \* the query row the second loop is at
    preds_x,
    preds_y,
    result,        \* the table predict returned, NoFrame before it returns
    \* validate
    submission_exists,
    sub,           \* the submission: [cols, rows]
    vpc,           \* validate's position
    gw,            \* whether the gateway has been constructed
    total_rows,
    batch_idx,
    cur,           \* the (data_batch, row_ids) pair the loop is at
    sel_xy,        \* rows of sel_xy
    exit_status,   \* the process's exit status, once vpc = "exited"
    report,        \* what the run printed about its end
    \* validate: what an observer of the gateway sees
    pulled,        \* batches the generator has yielded
    check_calls,   \* calls of competition_specific_validation
    last_call,     \* the arguments of the latest such call
    raised,        \* the GatewayRuntimeError the check raised, if it did
    exhausted,     \* whether the generator has ended
    passed         \* per batch the check accepted, in order: the rows handed
                   \* to the check and the ids the batch requested

pvars == <<test, test_input, ppc, last_obs, lookup, qi, preds_x, preds_y, result>>
vvars == <<submission_exists, sub, vpc, gw, total_rows, batch_idx, cur, sel_xy,
           exit_status, report, pulled, check_calls, last_call, raised,
           exhausted, passed>>
vars == <<pvars, vvars>>

\* ------------------------------------------------------------ small helpers
Restrict(r, cols) == [c \in cols |-> r[c]]

RestrictRows(rows, cols) == [i \in 1..Len(rows) |-> Restrict(rows[i], cols)]

RECURSIVE SumSeq(_)
SumSeq(s) == IF s = <<>> THEN 0 ELSE s[1] + SumSeq(Tail(s))

\* The rows whose id is in S, in the order of `rows`.
RowsCarrying(rows, S) ==
    LET F[i \in 0..Len(rows)] ==
            IF i = 0 THEN <<>>
            ELSE IF rows[i].id \in S THEN Append(F[i - 1], rows[i]) ELSE F[i - 1]
    IN F[Len(rows)]

\* ----------------------------------------------------------- drawn tables
ObsRowChoices(i) ==
    { [game_id |-> k[1], play_id |-> k[2], nfl_id |-> k[3],
       frame_id |-> f, x |-> xv, y |-> yv] :
          k \in EntityKeys, f \in Frames,
          xv \in {NaN, XOf(i)}, yv \in {NaN, YOf(i)} }

RECURSIVE ObsRowSeqs(_)
ObsRowSeqs(n) ==
    IF n = 0 THEN {<<>>}
    ELSE { Append(s, r) : s \in ObsRowSeqs(n - 1), r \in ObsRowChoices(n) }

ObsRowsUpTo(n) == UNION { ObsRowSeqs(m) : m \in 0..n }

\* Column sets of an observation table: x and y are there, frame_id and each
\* key column may or may not be.
KeyedSchemas == { ObsCols, ObsCols \ {"frame_id"} }
UnkeyedSchemas ==
    { ObsCols \ D : D \in { E \in SUBSET (KeyColSet \cup {"frame_id"}) :
                             E \cap KeyColSet # {} } }

ObsTables ==
    { [cols |-> c, rows |-> RestrictRows(rows, c)] :
          c \in KeyedSchemas, rows \in ObsRowsUpTo(MaxObs) }
    \cup
    { [cols |-> c, rows |-> RestrictRows(rows, c)] :
          c \in UnkeyedSchemas, rows \in ObsRowsUpTo(MaxRowsNoKey) }

QueryRow(k) == [game_id |-> k[1], play_id |-> k[2], nfl_id |-> k[3]]

RECURSIVE QueryRowSeqs(_)
QueryRowSeqs(n) ==
    IF n = 0 THEN {<<>>}
    ELSE { Append(s, QueryRow(k)) : s \in QueryRowSeqs(n - 1), k \in QueryKeys }

QueryTables ==
    { [cols |-> KeyColSet, rows |-> rows] :
          rows \in UNION { QueryRowSeqs(m) : m \in 0..MaxQueries } }

\* ================================================================ predict
\* key_cols, and the tuple k the two loops build from a row.
key_cols == <<"game_id", "play_id", "nfl_id">>
KeyOf(r) == <<r.game_id, r.play_id, r.nfl_id>>

\* Mutant of Fallback: a miss answered with missing values.
FallbackMissing == <<NaN, NaN>>

\* The default of lookup.get.
Fallback == <<0, 0>>

\* set(key_cols).issubset(set(ti.columns))
HasKeyCols(t) == {key_cols[i] : i \in 1..Len(key_cols)} \subseteq t.cols

\* Lexicographic order of two tuples of the same length.
RECURSIVE LexLess(_, _)
LexLess(a, b) ==
    IF a = <<>> THEN FALSE
    ELSE IF a[1] # b[1] THEN a[1] < b[1]
    ELSE LexLess(Tail(a), Tail(b))

\* sort_cols = key_cols + ['frame_id'], as the tuple a row is sorted by.
SortKey(r) == KeyOf(r) \o <<r.frame_id>>

\* r put behind every row that does not sort after it.
RECURSIVE InsertSorted(_, _)
InsertSorted(s, r) ==
    IF s = <<>> THEN <<r>>
    ELSE IF LexLess(SortKey(r), SortKey(s[Len(s)]))
         THEN Append(InsertSorted(SubSeq(s, 1, Len(s) - 1), r), s[Len(s)])
         ELSE Append(s, r)

\* ti.sort_values(sort_cols): ascending, and stable (pandas sorts by several
\* columns with a lexsort, which keeps equal rows in input order).
sort_values(rows) ==
    LET F[i \in 0..Len(rows)] ==
            IF i = 0 THEN <<>> ELSE InsertSorted(F[i - 1], rows[i])
    IN F[Len(rows)]

\* GroupBy.last of one column of one group: the last value that is not
\* missing, and missing when every value is.
LastValid(rows, k, col) ==
    LET idx == { i \in 1..Len(rows) : KeyOf(rows[i]) = k /\ rows[i][col] # NaN }
    IN IF idx = {} THEN NaN
       ELSE rows[CHOOSE i \in idx : \A j \in idx : j <= i][col]

\* The keys of a set, ascending (groupby sorts its groups).
RECURSIVE SortedKeys(_)
SortedKeys(S) ==
    IF S = {} THEN <<>>
    ELSE LET m == CHOOSE k \in S : \A o \in S \ {k} : LexLess(k, o)
         IN <<m>> \o SortedKeys(S \ {m})

\* frame.groupby(key_cols).last().reset_index(): one row per key, holding the
\* key and GroupBy.last of every other column.
groupby_last(rows, cols) ==
    LET ks == SortedKeys({ KeyOf(rows[i]) : i \in 1..Len(rows) })
    IN [ n \in 1..Len(ks) |->
           [ c \in cols |->
               IF c = "game_id" THEN ks[n][1]
               ELSE IF c = "play_id" THEN ks[n][2]
               ELSE IF c = "nfl_id" THEN ks[n][3]
               ELSE LastValid(rows, ks[n], c) ] ]

\* The rows of last_obs.
BuildLastObs(t) ==
    IF "frame_id" \in t.cols
    THEN groupby_last(sort_values(t.rows), t.cols)
    ELSE groupby_last(t.rows, t.cols)

\* row.get(col, 0.0)
RowGet(row, col) == IF col \in DOMAIN row THEN row[col] ELSE 0

\* The loop over last_obs.iterrows() that fills lookup; a later row of the
\* same key overwrites an earlier one.
BuildLookup(rows) ==
    [ k \in { KeyOf(rows[i]) : i \in 1..Len(rows) } |->
        LET i == CHOOSE i \in 1..Len(rows) :
                    /\ KeyOf(rows[i]) = k
                    /\ \A j \in 1..Len(rows) : KeyOf(rows[j]) = k => j <= i
        IN <<RowGet(rows[i], "x"), RowGet(rows[i], "y")>> ]

\* lookup.get(k, (0.0, 0.0))
LookupGet(d, k) == IF k \in DOMAIN d THEN d[k] ELSE Fallback

\* Mutant of AppendPred: the prediction put in front.
PrependPred(xs, v) == <<v>> \o xs

\* preds_x.append(x), preds_y.append(y)
AppendPred(xs, v) == Append(xs, v)

\* pd.DataFrame({'x': xs, 'y': ys}) handed to pl.from_pandas.
Frame(xs, ys) ==
    [cols |-> <<"x", "y">>,
     rows |-> [i \in 1..Len(xs) |-> [x |-> xs[i], y |-> ys[i]]]]

Zeros(n) == [i \in 1..n |-> 0]

InitPredictVars ==
    /\ test \in QueryTables
    /\ test_input \in ObsTables
    /\ ppc = "start"
    /\ last_obs = <<>>
    /\ lookup = <<>>
    /\ qi = 1
    /\ preds_x = <<>>
    /\ preds_y = <<>>
    /\ result = NoFrame

\* Lines 52-56: an observation table without the key columns.
PredictNoKeys ==
    /\ ppc = "start"
    /\ ~HasKeyCols(test_input)
    /\ result' = Frame(Zeros(Len(test.rows)), Zeros(Len(test.rows)))
    /\ ppc' = "done"
    /\ UNCHANGED <<test, test_input, last_obs, lookup, qi, preds_x, preds_y>>
    /\ UNCHANGED vvars

\* Lines 58-64.
PredictLastObs ==
    /\ ppc = "start"
    /\ HasKeyCols(test_input)
    /\ last_obs' = BuildLastObs(test_input)
    /\ ppc' = "lookup"
    /\ UNCHANGED <<test, test_input, lookup, qi, preds_x, preds_y, result>>
    /\ UNCHANGED vvars

\* Lines 66-70.
PredictLookup ==
    /\ ppc = "lookup"
    /\ lookup' = BuildLookup(last_obs)
    /\ ppc' = "rows"
    /\ UNCHANGED <<test, test_input, last_obs, qi, preds_x, preds_y, result>>
    /\ UNCHANGED vvars

\* Lines 74-78, one query row.
PredictRow ==
    /\ ppc = "rows"
    /\ qi <= Len(test.rows)
    /\ LET p == LookupGet(lookup, KeyOf(test.rows[qi]))
       IN /\ preds_x' = AppendPred(preds_x, p[1])
          /\ preds_y' = AppendPred(preds_y, p[2])
    /\ qi' = qi + 1
    /\ UNCHANGED <<test, test_input, ppc, last_obs, lookup, result>>
    /\ UNCHANGED vvars

\* Lines 80-83.
PredictReturn ==
    /\ ppc = "rows"
    /\ qi > Len(test.rows)
    /\ result' = Frame(preds_x, preds_y)
    /\ ppc' = "done"
    /\ UNCHANGED <<test, test_input, last_obs, lookup, qi, preds_x, preds_y>>
    /\ UNCHANGED vvars

\* =============================================================== validate
\* The ids a submission holds and a batch requests.
Ids == {41, 42}
SubCols == {"id", "x", "y"}

RECURSIVE IdSeqs(_)
IdSeqs(n) ==
    IF n = 0 THEN {<<>>} ELSE { Append(s, v) : s \in IdSeqs(n - 1), v \in Ids }

IdSeqsUpTo(n) == UNION { IdSeqs(m) : m \in 0..n }

SubRows(ids) == [i \in 1..Len(ids) |-> [id |-> ids[i], x |-> XOf(i), y |-> YOf(i)]]

\* The files read_csv may find: any columns among id, x and y, and ids that
\* may repeat.
Submissions ==
    { [cols |-> c, rows |-> RestrictRows(SubRows(ids), c)] :
          c \in SUBSET SubCols, ids \in IdSeqsUpTo(MaxSub) }

\* The row_ids frame of a batch: one column, the ids in the order requested.
RowIdsFrame(ids) ==
    [cols |-> <<"id">>, rows |-> [i \in 1..Len(ids) |-> [id |-> ids[i]]]]

\* What GatewayRuntimeError the check may raise.
GatewayErrors ==
    { [error_type |-> "INVALID_SUBMISSION", error_details |-> "wrong values"],
      [error_type |-> "GATEWAY_RAISED_EXCEPTION", error_details |-> "wrong shape"] }

NoError == [error_type |-> "", error_details |-> ""]
NoBatch == [data_batch |-> 0, row_ids |-> NoFrame]
NoCall == [submission |-> <<>>, row_ids |-> NoFrame, data_batch |-> 0]
NoReport == [kind |-> "none", batch |-> 0, ids |-> {}, error_type |-> "",
             error_details |-> "", rows |-> 0, batches |-> 0]

\* to_pandas_series_first_col(row_ids).tolist()
to_pandas_series_first_col(f) == [i \in 1..Len(f.rows) |-> f.rows[i][f.cols[1]]]

\* Mutant of MissingIds: a lookup that drops the labels it does not find.
MissingIdsIgnored(rows, ids) == {}

\* The labels of `ids` that sub.set_index("id") does not hold: .loc raises
\* KeyError naming them.
MissingIds(rows, ids) ==
    { ids[j] : j \in 1..Len(ids) } \ { rows[i].id : i \in 1..Len(rows) }

\* Mutant of Loc: the rows whose id is requested, in the submission's order.
LocAsIntersection(rows, ids) ==
    RowsCarrying(rows, { ids[j] : j \in 1..Len(ids) })

\* sub.set_index("id").loc[ids]: for each requested label in turn, every row
\* of the submission that carries it, in the submission's order.
RECURSIVE Loc(_, _)
Loc(rows, ids) ==
    IF ids = <<>> THEN <<>>
    ELSE RowsCarrying(rows, {ids[1]}) \o Loc(rows, Tail(ids))

\* sel[["x", "y"]].reset_index(drop=True)
SelectXY(sel) == RestrictRows(sel, {"x", "y"})

\* Mutant of AddRows: the total overwritten, not accumulated.
AddRowsOverwrite(total, xy) == Len(xy)

\* batch_rows = len(sel_xy); total_rows += batch_rows
AddRows(total, xy) == total + Len(xy)

\* Mutant of TotalAfterRaise: the rows counted before the check is called.
TotalCountedBeforeCheck(total, xy) == total + Len(xy)

\* The total when the check raised: lines 85-87 are skipped.
TotalAfterRaise(total, xy) == total

\* The batch index the loop gives the batch it has just pulled.
NextBatchIdx(idx) == idx + 1

\* The statuses the process ends with.
SuccessExit == 0
ConfigExit == 2

\* Mutant of HarnessExit: the handler prints the failure and does not exit
\* with 3, so that validate returns.
HarnessExitDropped == SuccessExit

HarnessExit == 3

\* Mutant of LoadError: only x is looked for, not x and y.
LoadErrorXOnly(exists, s) ==
    IF ~exists THEN "file_not_found"
    ELSE IF "id" \notin s.cols THEN "no_id_column"
    ELSE IF "x" \notin s.cols THEN "no_xy_columns"
    ELSE "ok"

\* The checks of the file and its columns, in the order validate makes them.
LoadError(exists, s) ==
    IF ~exists THEN "file_not_found"
    ELSE IF "id" \notin s.cols THEN "no_id_column"
    ELSE IF ~({"x", "y"} \subseteq s.cols) THEN "no_xy_columns"
    ELSE "ok"

\* sys.exit(code) after the print.
Exit(code, rep) ==
    /\ vpc' = "exited"
    /\ exit_status' = code
    /\ report' = rep

InitValidateVars ==
    /\ submission_exists \in BOOLEAN
    /\ sub \in Submissions
    /\ submission_exists = FALSE => sub = [cols |-> {}, rows |-> <<>>]
    /\ vpc = "start"
    /\ gw = FALSE
    /\ total_rows = 0
    /\ batch_idx = 0
    /\ cur = NoBatch
    /\ sel_xy = <<>>
    /\ exit_status = 0
    /\ report = NoReport
    /\ pulled = 0
    /\ check_calls = 0
    /\ last_call = NoCall
    /\ raised = NoError
    /\ exhausted = FALSE
    /\ passed = <<>>

\* Lines 42-55: the file and its columns.
ValidateLoad ==
    /\ vpc = "start"
    /\ LET e == LoadError(submission_exists, sub)
       IN IF e # "ok"
          THEN Exit(ConfigExit, [NoReport EXCEPT !.kind = e])
          ELSE /\ vpc' = "gateway"
               /\ UNCHANGED <<exit_status, report>>
    /\ UNCHANGED <<submission_exists, sub, gw, total_rows, batch_idx, cur, sel_xy,
                   pulled, check_calls, last_call, raised, exhausted, passed>>
    /\ UNCHANGED pvars

\* Lines 57-62: the gateway and the two counters.
ValidateGateway ==
    /\ vpc = "gateway"
    /\ gw' = TRUE
    /\ total_rows' = 0
    /\ batch_idx' = 0
    /\ vpc' = "loop"
    /\ UNCHANGED <<submission_exists, sub, cur, sel_xy, exit_status, report,
                   pulled, check_calls, last_call, raised, exhausted, passed>>
    /\ UNCHANGED pvars

\* Lines 64-65: the generator yields its next batch.
GeneratorYield ==
    /\ vpc = "loop"
    /\ pulled < MaxBatches
    /\ \E ids \in IdSeqsUpTo(MaxRowIds) :
          cur' = [data_batch |-> pulled + 1, row_ids |-> RowIdsFrame(ids)]
    /\ pulled' = pulled + 1
    /\ batch_idx' = NextBatchIdx(batch_idx)
    /\ vpc' = "select"
    /\ UNCHANGED <<submission_exists, sub, gw, total_rows, sel_xy, exit_status,
                   report, check_calls, last_call, raised, exhausted, passed>>
    /\ UNCHANGED pvars

\* Lines 64 and 95: the generator is exhausted, validate returns and the
\* process ends with status 0.
GeneratorExhausted ==
    /\ vpc = "loop"
    /\ exhausted' = TRUE
    /\ Exit(SuccessExit, [NoReport EXCEPT !.kind = "all_done",
                                          !.rows = total_rows,
                                          !.batches = batch_idx])
    /\ UNCHANGED <<submission_exists, sub, gw, total_rows, batch_idx, cur, sel_xy,
                   pulled, check_calls, last_call, raised, passed>>
    /\ UNCHANGED pvars

\* Lines 66-80: the rows of the batch, by id.
ValidateSelect ==
    /\ vpc = "select"
    /\ LET row_id_list == to_pandas_series_first_col(cur.row_ids)
           missing == MissingIds(sub.rows, row_id_list)
       IN IF missing # {}
          THEN /\ Exit(ConfigExit, [NoReport EXCEPT !.kind = "missing_ids",
                                                    !.batch = batch_idx,
                                                    !.ids = missing])
               /\ UNCHANGED sel_xy
          ELSE /\ sel_xy' = SelectXY(Loc(sub.rows, row_id_list))
               /\ vpc' = "check"
               /\ UNCHANGED <<exit_status, report>>
    /\ UNCHANGED <<submission_exists, sub, gw, total_rows, batch_idx, cur,
                   pulled, check_calls, last_call, raised, exhausted, passed>>
    /\ UNCHANGED pvars

\* What line 83 hands to competition_specific_validation.
CheckArgs == [submission |-> sel_xy, row_ids |-> cur.row_ids,
              data_batch |-> cur.data_batch]

\* Lines 83-87: the check returns.
CheckAccepts ==
    /\ vpc = "check"
    /\ last_call' = CheckArgs
    /\ check_calls' = check_calls + 1
    /\ passed' = Append(passed, [rows |-> Len(sel_xy),
                                  requested |-> Len(cur.row_ids.rows)])
    /\ total_rows' = AddRows(total_rows, sel_xy)
    /\ vpc' = "loop"
    /\ UNCHANGED <<submission_exists, sub, gw, batch_idx, cur, sel_xy,
                   exit_status, report, pulled, raised, exhausted>>
    /\ UNCHANGED pvars

\* Lines 83 and 89-93: the check raises GatewayRuntimeError.
CheckRaises ==
    /\ vpc = "check"
    /\ last_call' = CheckArgs
    /\ check_calls' = check_calls + 1
    /\ \E gre \in GatewayErrors :
          /\ raised' = gre
          /\ Exit(HarnessExit, [NoReport EXCEPT !.kind = "validation_failed",
                                                !.error_type = gre.error_type,
                                                !.error_details = gre.error_details])
    /\ total_rows' = TotalAfterRaise(total_rows, sel_xy)
    /\ UNCHANGED <<submission_exists, sub, gw, batch_idx, cur, sel_xy,
                   pulled, exhausted, passed>>
    /\ UNCHANGED pvars

IdlePredictVars ==
    /\ test = NoFrame
    /\ test_input = NoFrame
    /\ ppc = "idle"
    /\ last_obs = <<>>
    /\ lookup = <<>>
    /\ qi = 1
    /\ preds_x = <<>>
    /\ preds_y = <<>>
    /\ result = NoFrame

IdleValidateVars ==
    /\ submission_exists = FALSE
    /\ sub = [cols |-> {}, rows |-> <<>>]
    /\ vpc = "idle"
    /\ gw = FALSE
    /\ total_rows = 0
    /\ batch_idx = 0
    /\ cur = NoBatch
    /\ sel_xy = <<>>
    /\ exit_status = 0
    /\ report = NoReport
    /\ pulled = 0
    /\ check_calls = 0
    /\ last_call = NoCall
    /\ raised = NoError
    /\ exhausted = FALSE
    /\ passed = <<>>

InitPredict == InitPredictVars /\ IdleValidateVars

NextPredict ==
    \/ PredictNoKeys
    \/ PredictLastObs
    \/ PredictLookup
    \/ PredictRow
    \/ PredictReturn

SpecPredict == InitPredict /\ [][NextPredict]_vars

InitValidate == InitValidateVars /\ IdlePredictVars

NextValidate ==
    \/ ValidateLoad
    \/ ValidateGateway
    \/ GeneratorYield
    \/ GeneratorExhausted
    \/ ValidateSelect
    \/ CheckAccepts
    \/ CheckRaises

SpecValidate == InitValidate /\ [][NextValidate]_vars

\* ================================================================= claims
\* ---------------------------------------------------------------- predict
PredictDone == ppc = "done"
ObsKeyed == KeyColSet \subseteq test_input.cols
ObsFramed == "frame_id" \in test_input.cols
ZeroRow == [x |-> 0, y |-> 0]

\* The observation records of entity K, by position.
RecordsOf(K) ==
    { i \in 1..Len(test_input.rows) :
        <<test_input.rows[i].game_id, test_input.rows[i].play_id,
          test_input.rows[i].nfl_id>> = K }

\* Record i comes before record j: by frame_id and then by input order when
\* there is a frame_id column, by input order alone when there is none.
Precedes(i, j) ==
    IF ObsFramed
    THEN \/ test_input.rows[i].frame_id < test_input.rows[j].frame_id
         \/ /\ test_input.rows[i].frame_id = test_input.rows[j].frame_id
            /\ i < j
    ELSE i < j

LatestOf(P) == CHOOSE i \in P : \A j \in P \ {i} : Precedes(j, i)

\* The latest value of column c of entity K that is not missing.
LatestValue(K, c) ==
    LET P == { i \in RecordsOf(K) : test_input.rows[i][c] # NaN }
    IN IF P = {} THEN NaN ELSE test_input.rows[LatestOf(P)][c]

PredictionFor(K) ==
    IF ~ObsKeyed THEN ZeroRow
    ELSE IF RecordsOf(K) = {} THEN ZeroRow
    ELSE [x |-> LatestValue(K, "x"), y |-> LatestValue(K, "y")]

QueryKey(q) == <<test.rows[q].game_id, test.rows[q].play_id, test.rows[q].nfl_id>>

\* The x and y of one record.
RecordXY(i) == [x |-> test_input.rows[i].x, y |-> test_input.rows[i].y]

\* C1: with key columns and frame_id, the prediction for a key K of the
\* observations is the x and y of one record: K's record of greatest
\* frame_id, the last in input order among equals; also when records of K
\* hold a missing x or y.
C1_LatestRecordOfKey ==
    (PredictDone /\ ObsKeyed /\ ObsFramed) =>
        \A q \in 1..Len(test.rows) :
            RecordsOf(QueryKey(q)) # {} =>
                result.rows[q] = RecordXY(LatestOf(RecordsOf(QueryKey(q))))

\* C2: predict returns one row per query row, with the columns x and y and
\* no other, row q being the prediction for the key of query row q.
C2_OneRowPerQueryInOrder ==
    PredictDone =>
        /\ result.cols = <<"x", "y">>
        /\ Len(result.rows) = Len(test.rows)
        /\ \A q \in 1..Len(test.rows) :
              /\ DOMAIN result.rows[q] = {"x", "y"}
              /\ result.rows[q] = PredictionFor(QueryKey(q))

\* Two queries, the first matching nothing, the second answered from the
\* observations.
C2_Witness ==
    /\ PredictDone /\ ObsKeyed
    /\ Len(test.rows) = 2
    /\ RecordsOf(QueryKey(1)) = {}
    /\ RecordsOf(QueryKey(2)) # {}
    /\ result.rows[1] # result.rows[2]

\* C3: a query whose key is in no observation record, and every query when
\* the observations lack a key column, gets (0, 0); a query whose key is in
\* the observations does not.
C3_FallbackForUnknownKeys ==
    PredictDone =>
        \A q \in 1..Len(test.rows) :
            IF ~ObsKeyed THEN result.rows[q] = ZeroRow
            ELSE IF RecordsOf(QueryKey(q)) = {} THEN result.rows[q] = ZeroRow
            ELSE result.rows[q].x # 0 /\ result.rows[q].y # 0

\* A query answered from the observations before a query that matches
\* nothing.
C3_Witness ==
    /\ PredictDone /\ ObsKeyed
    /\ Len(test.rows) = 2
    /\ RecordsOf(QueryKey(1)) # {}
    /\ RecordsOf(QueryKey(2)) = {}
    /\ result.rows[2] = ZeroRow

\* C4: with key columns and no frame_id, the prediction for a key K of the
\* observations is the x and y of K's last record in input order.
C4_LastRecordInInputOrder ==
    (PredictDone /\ ObsKeyed /\ ~ObsFramed) =>
        \A q \in 1..Len(test.rows) :
            RecordsOf(QueryKey(q)) # {} =>
                result.rows[q] = RecordXY(LatestOf(RecordsOf(QueryKey(q))))

\* --------------------------------------------------------------- validate
Exited == vpc = "exited"
Terminal == ~ENABLED NextValidate

\* The ids the batch at hand requests, in order.
Requested == [i \in 1..Len(cur.row_ids.rows) |-> cur.row_ids.rows[i].id]
SubIds == { sub.rows[i].id : i \in 1..Len(sub.rows) }
Absent == { Requested[i] : i \in 1..Len(Requested) } \ SubIds
UniqueIds ==
    \A i, j \in 1..Len(sub.rows) : i # j => sub.rows[i].id # sub.rows[j].id

RowsPassed == SumSeq([i \in 1..Len(passed) |-> passed[i].rows])

\* C5: a batch k that requests an id the submission does not hold ends the
\* run at the lookup: status 2, the report names batch k and the absent ids,
\* the check was not called for batch k, nothing follows.
C5_MissingIdStopsRun ==
    /\ (pulled > 0 /\ Absent # {}) =>
          \/ vpc = "select"
          \/ /\ Exited
             /\ exit_status = 2
             /\ report.kind = "missing_ids"
             /\ report.batch = pulled
             /\ report.ids = Absent
             /\ check_calls = pulled - 1
             /\ Len(passed) = pulled - 1
             /\ ~exhausted
             /\ Terminal
    /\ report.kind = "missing_ids" => (pulled > 0 /\ Absent # {})

\* The third batch requests an absent id after two batches passed.
C5_Witness ==
    /\ report.kind = "missing_ids"
    /\ pulled = 3
    /\ Len(passed) = 2
    /\ SubIds # {}

\* C6: a GatewayRuntimeError raised by the check on batch k ends the run:
\* status 3, the error's type and details reported as raised, no batch
\* pulled or checked after k, and the total is that of batches 1..k-1.
C6_HarnessFailureStopsRun ==
    (report.kind = "validation_failed" \/ raised # NoError) =>
        /\ Exited
        /\ exit_status = 3
        /\ report.kind = "validation_failed"
        /\ raised \in GatewayErrors
        /\ report.error_type = raised.error_type
        /\ report.error_details = raised.error_details
        /\ check_calls = pulled
        /\ Len(passed) = pulled - 1
        /\ total_rows = RowsPassed
        /\ ~exhausted
        /\ Terminal

\* The check rejects the third batch, which has rows, after two batches
\* with rows passed.
C6_Witness ==
    /\ report.kind = "validation_failed"
    /\ pulled = 3
    /\ passed[1].rows > 0
    /\ passed[2].rows > 0
    /\ Len(sel_xy) > 0

\* The latest call of the check was for the batch at hand.
CheckedBatchAtHand == check_calls > 0 /\ check_calls = pulled

\* The table handed to the check has one row per requested id, in the order
\* requested, each the x and y of a submission row of that id, and no other
\* column; row_ids and the batch are those the generator yielded.
CallMatchesRequest ==
    /\ Len(last_call.submission) = Len(Requested)
    /\ \A i \in 1..Len(last_call.submission) :
          /\ DOMAIN last_call.submission[i] = {"x", "y"}
          /\ i <= Len(Requested) =>
                \E j \in 1..Len(sub.rows) :
                    /\ sub.rows[j].id = Requested[i]
                    /\ last_call.submission[i] =
                          [x |-> sub.rows[j].x, y |-> sub.rows[j].y]
    /\ last_call.row_ids = cur.row_ids
    /\ last_call.data_batch = pulled

\* C7, as stated: for every batch whose ids are all in the submission the
\* table handed to the check has exactly one row per requested id.
C7_OneRowPerRequestedId == CheckedBatchAtHand => CallMatchesRequest

\* C7, amended: the same when the ids of the submission are unique.
C7_OneRowPerRequestedIdWhenUnique ==
    (CheckedBatchAtHand /\ UniqueIds) => CallMatchesRequest

\* The batch requests two ids in the reverse of the submission's order.
C7_Witness ==
    /\ CheckedBatchAtHand /\ UniqueIds
    /\ Len(sub.rows) = 2
    /\ Requested = <<sub.rows[2].id, sub.rows[1].id>>

SchemaBroken == submission_exists /\ ~(SubCols \subseteq sub.cols)

\* C8: a submission without id, or without x or y, ends the run with status
\* 2 before the gateway is made or a batch pulled; a failure the check
\* reports ends it with status 3.
C8_SchemaCheckedFirst ==
    /\ SchemaBroken =>
          /\ ~gw /\ pulled = 0 /\ check_calls = 0
          /\ \/ vpc = "start"
             \/ /\ Exited
                /\ exit_status = 2
                /\ report.kind \in {"no_id_column", "no_xy_columns"}
                /\ Terminal
    /\ report.kind \in {"no_id_column", "no_xy_columns"} => SchemaBroken
    /\ report.kind = "validation_failed" => (~SchemaBroken /\ exit_status = 3)

\* A submission with id and x and without y has ended the run.
C8_Witness ==
    /\ Exited
    /\ sub.cols = {"id", "x"}
    /\ report.kind = "no_xy_columns"

\* C9: batches are pulled and checked one at a time, in the generator's
\* order, each at most once; the run ends once, with 0 exactly when the
\* generator ended and every batch it yielded passed the lookup and the
\* check, with 2 for a file, column or missing-id error, with 3 for a
\* failure the check reported; nothing happens after the end.
C9_RunStateMachine ==
    /\ vpc \in {"start", "gateway", "loop", "select", "check", "exited"}
    /\ batch_idx = pulled
    /\ check_calls <= pulled /\ pulled <= check_calls + 1
    /\ Len(passed) <= check_calls
    /\ pulled > 0 => cur.data_batch = pulled
    /\ check_calls > 0 => last_call.data_batch = check_calls
    /\ vpc = "select" => check_calls = pulled - 1
    /\ vpc = "check" => check_calls = pulled - 1
    /\ exhausted => Exited
    /\ Exited =>
          /\ Terminal
          /\ exit_status \in {0, 2, 3}
          /\ exit_status = 0 <=> (exhausted /\ Len(passed) = pulled)
          /\ exit_status = 2 <=>
                report.kind \in {"file_not_found", "no_id_column",
                                 "no_xy_columns", "missing_ids"}
          /\ exit_status = 3 <=> report.kind = "validation_failed"
    /\ ~Exited => report = NoReport

\* A run of three batches that ends in success.
C9_Witness ==
    /\ Exited
    /\ exit_status = 0
    /\ pulled = 3
    /\ check_calls = 3

EndedInLoop ==
    Exited /\ report.kind \in {"all_done", "missing_ids", "validation_failed"}

\* C10, as stated: when the run ends, the total is the sum of the rows of
\* the batches that passed the check and the batch count is their number.
C10_CountersOfPassedBatches ==
    EndedInLoop =>
        /\ total_rows = RowsPassed
        /\ batch_idx = Len(passed)
        /\ UniqueIds => \A i \in 1..Len(passed) : passed[i].rows = passed[i].requested

\* C10, amended: the batch count is the number of batches that passed when
\* the run ends in success; when it ends by a missing id or a failure of the
\* check, it counts the failing batch too.
C10_CountersAtEnd ==
    EndedInLoop =>
        /\ total_rows = RowsPassed
        /\ report.kind = "all_done" =>
              /\ batch_idx = Len(passed)
              /\ report.rows = RowsPassed
              /\ report.batches = Len(passed)
        /\ report.kind # "all_done" => batch_idx = Len(passed) + 1
        /\ UniqueIds => \A i \in 1..Len(passed) : passed[i].rows = passed[i].requested

\* Two batches with rows passed and the run ended in success.
C10_Witness ==
    /\ Exited
    /\ report.kind = "all_done"
    /\ Len(passed) = 2
    /\ passed[1].rows > 0
    /\ passed[2].rows > 0

====
